---- MODULE Spec2Model ----
(***************************************************************************)
(* Pull-request reviewer assignment service.                               *)
(*                                                                         *)
(* The datastore (migrations/init.sql) is the record db with one field per *)
(* table; the repository methods (internal/repository) are operators from  *)
(* a datastore value to the set of outcomes the method can produce, and    *)
(* the service methods (internal/service/service.go) are compositions of   *)
(* them.  Spec runs whole service calls one after the other; ConcSpec runs *)
(* the SQL statements of concurrent calls interleaved under PostgreSQL's   *)
(* default READ COMMITTED isolation.                                       *)
(*                                                                         *)
(* User ids are modelled as naturals: id k stands for the k-th id string   *)
(* in collation order, which is all that ORDER BY u.user_id looks at.      *)
(* teams.team_id is identified with teams.team_name, which the schema      *)
(* declares UNIQUE.  created_at is not modelled: nothing reads it.         *)
(***************************************************************************)
EXTENDS Integers, Sequences, FiniteSets, TLC

\* ---- bounds of the model ------------------------------------------------
\* user ids 1..NumUsers, member lists of at most MaxMembers entries, and
\* candidate limits 0..MaxLimit
NumUsers == 3
MaxMembers == 2
MaxLimit == 3

UserIds == 1..NumUsers
PRIds == {"p1", "p2"}
\* "t" and "T" are equal ignoring letter case
TeamNames == {"t", "T", "s"}
\* the names the sequential calls of Spec create teams with
CalledTeamNames == {"t", "s"}
\* the users the calls of Spec create pull requests for
AuthorIds == {1, 2}
Usernames == {"a"}
Titles == {"x"}

\* service.go: s.repo.GetCandidateReviewers(authorID, 2)
ReviewerLimit == 2

\* merged_at IS NULL
NULL == 0
\* the empty user id "" returned next to an error
NoUser == 0

\* db    - the committed content of the five tables
\* clock - CURRENT_TIMESTAMP
\* last  - the call that returned last: its name, its error, and whether it
\*         changed the datastore
\* procs - the calls in flight in ConcSpec, one per worker
VARIABLES db, clock, last, procs

vars == <<db, clock, last, procs>>

\* ---- errors (entity/errors.go) -------------------------------------------
ErrTeamExists == "ErrTeamExists"
ErrPRExists == "ErrPRExists"
ErrPRMerged == "ErrPRMerged"
ErrNotAssigned == "ErrNotAssigned"
ErrNoCandidate == "ErrNoCandidate"
ErrNotFound == "ErrNotFound"
\* any error that is none of the above (constraint violation, sql.ErrNoRows
\* passed through, fmt.Errorf without %w)
ErrOther == "ErrOther"
nil == "nil"

\* fmt.Errorf("author not found: %w", entity.ErrNotFound): an error value of
\* its own that wraps ErrNotFound
ErrAuthorNotFound == "author not found: ErrNotFound"

Unwrap(err) == IF err = ErrAuthorNotFound THEN ErrNotFound ELSE nil

\* errors.Is(err, target)
Is(err, target) == err = target \/ (Unwrap(err) # nil /\ Unwrap(err) = target)

\* ---- entity.User as a request member -------------------------------------
User == [id : UserIds, username : Usernames, is_active : BOOLEAN]

MemberLists == UNION {[1..n -> User] : n \in 0..MaxMembers}

\* SQL LOWER() on the team names of the model
LOWER(name) == IF name = "T" THEN "t" ELSE name

EmptyDB ==
    [teams |-> {}, users |-> <<>>, team_members |-> {},
     pull_requests |-> <<>>, reviewers |-> <<>>]

Out(d, e, r) == [db |-> d, err |-> e, ret |-> r]

\* ---- RepositoryImpl.CreateTeam -------------------------------------------
\* mutant: ON CONFLICT (user_id) DO NOTHING
UpsertUser_KeepStored(users, m) ==
    [u \in (DOMAIN users) \cup {m.id} |->
        IF u \in DOMAIN users THEN users[u]
        ELSE [username |-> m.username, is_active |-> m.is_active]]

\* INSERT INTO users ... ON CONFLICT (user_id) DO UPDATE
UpsertUser(users, m) ==
    [u \in (DOMAIN users) \cup {m.id} |->
        IF u = m.id THEN [username |-> m.username, is_active |-> m.is_active]
        ELSE users[u]]

RECURSIVE InsertMembers(_, _, _)
InsertMembers(d, team, members) ==
    IF members = <<>> THEN d
    ELSE LET m == Head(members)
             d1 == [d EXCEPT !.users = UpsertUser(@, m),
                             !.team_members = @ \cup {<<team, m.id>>}]
         IN InsertMembers(d1, team, Tail(members))

\* SELECT team_id FROM teams WHERE LOWER(team_name) = LOWER($1) finds a row
TeamNameTaken(d, name) == \E t \in d.teams : LOWER(t) = LOWER(name)

\* mutant: the name is looked up without LOWER()
RepoCreateTeam_ExactName(d, name, members) ==
    IF name \in d.teams
    THEN Out(d, ErrTeamExists, name)
    ELSE Out(InsertMembers([d EXCEPT !.teams = @ \cup {name}], name, members),
             nil, name)

\* mutant: the INSERT INTO team_members has no ON CONFLICT DO NOTHING
RepoCreateTeam_StrictLink(d, name, members) ==
    IF TeamNameTaken(d, name)
    THEN Out(d, ErrTeamExists, name)
    ELSE IF \E i \in DOMAIN members, j \in DOMAIN members :
                i # j /\ members[i].id = members[j].id
    THEN Out(d, ErrOther, name)
    ELSE Out(InsertMembers([d EXCEPT !.teams = @ \cup {name}], name, members),
             nil, name)

RepoCreateTeam(d, name, members) ==
    IF TeamNameTaken(d, name)
    THEN Out(d, ErrTeamExists, name)
    ELSE Out(InsertMembers([d EXCEPT !.teams = @ \cup {name}], name, members),
             nil, name)

\* ---- RepositoryImpl.SetUserActive ----------------------------------------
\* mutant: deactivating a user also closes the user's reviewers rows
RepoSetUserActive_ReleaseReviews(d, userID, isActive) ==
    IF userID \notin DOMAIN d.users
    THEN Out(d, ErrNotFound, <<>>)
    ELSE LET d1 == [d EXCEPT !.users[userID].is_active = isActive,
                             !.reviewers = [k \in DOMAIN @ |->
                                               @[k] /\ (isActive \/ k[2] # userID)]]
         IN Out(d1, nil, [id |-> userID,
                          username |-> d1.users[userID].username,
                          is_active |-> d1.users[userID].is_active])

RepoSetUserActive(d, userID, isActive) ==
    IF userID \notin DOMAIN d.users
    THEN Out(d, ErrNotFound, <<>>)
    ELSE LET d1 == [d EXCEPT !.users[userID].is_active = isActive]
         IN Out(d1, nil, [id |-> userID,
                          username |-> d1.users[userID].username,
                          is_active |-> d1.users[userID].is_active])

\* ---- RepositoryImpl.GetPRReviewers / GetPR -------------------------------
ActiveReviewers(d, prID) ==
    {k[2] : k \in {r \in DOMAIN d.reviewers : r[1] = prID /\ d.reviewers[r]}}

GetPRReviewers(d, prID) ==
    {u \in ActiveReviewers(d, prID) : u \in DOMAIN d.users}

PRRecord(d, prID, revs) ==
    [id |-> prID,
     title |-> d.pull_requests[prID].title,
     author |-> d.pull_requests[prID].author,
     status |-> d.pull_requests[prID].status,
     merged_at |-> d.pull_requests[prID].merged_at,
     reviewers |-> revs]

\* the nil *entity.PullRequest returned next to an error
NoPR ==
    [id |-> "", title |-> "", author |-> NoUser, status |-> "",
     merged_at |-> NULL, reviewers |-> {}]

RepoGetPR(d, prID) ==
    IF prID \notin DOMAIN d.pull_requests
    THEN Out(d, ErrNotFound, NoPR)
    ELSE Out(d, nil, PRRecord(d, prID, GetPRReviewers(d, prID)))

\* ---- RepositoryImpl.GetCandidateReviewers --------------------------------
\* rows of reviewers r joined to user u with r.is_active = true
ActiveAssignments(d, u) ==
    {k \in DOMAIN d.reviewers : k[2] = u /\ d.reviewers[k]}

\* rows of tm JOIN tm_author for user u and the author
SharedTeams(d, u, authorID) ==
    {t \in d.teams : <<t, u>> \in d.team_members /\ <<t, authorID>> \in d.team_members}

\* COUNT(r.user_id) of the group of u: one joined row per (shared team,
\* active reviewer row); the LEFT JOIN on pull_requests adds no row and
\* removes none
current_assignments(d, u, authorID) ==
    Cardinality(SharedTeams(d, u, authorID)) * Cardinality(ActiveAssignments(d, u))

\* mutant: the author is not excluded
CandidateUsers_WithAuthor(d, authorID) ==
    {u \in DOMAIN d.users :
        /\ SharedTeams(d, u, authorID) # {}
        /\ d.users[u].is_active}

\* mutant: inactive users are not excluded
CandidateUsers_IgnoreActive(d, authorID) ==
    {u \in DOMAIN d.users :
        /\ SharedTeams(d, u, authorID) # {}
        /\ u # authorID}

CandidateUsers(d, authorID) ==
    {u \in DOMAIN d.users :
        /\ SharedTeams(d, u, authorID) # {}
        /\ u # authorID
        /\ d.users[u].is_active}

\* ORDER BY current_assignments ASC, u.user_id
OrderedBefore(d, authorID, u, v) ==
    \/ current_assignments(d, u, authorID) < current_assignments(d, v, authorID)
    \/ /\ current_assignments(d, u, authorID) = current_assignments(d, v, authorID)
       /\ u < v

Min(a, b) == IF a < b THEN a ELSE b

GetCandidateReviewers(d, authorID, limit) ==
    LET C == CandidateUsers(d, authorID)
        pos(u) == Cardinality({v \in C : OrderedBefore(d, authorID, v, u)}) + 1
    IN [i \in 1..Min(limit, Cardinality(C)) |-> CHOOSE u \in C : pos(u) = i]

\* ---- RepositoryImpl.CreatePR ---------------------------------------------
RECURSIVE InsertReviewers(_, _, _)
\* the loop over reviewerIDs; "failed" when an INSERT violates the foreign
\* key on users or the primary key (pull_request_id, user_id)
InsertReviewers(d, prID, reviewerIDs) ==
    IF reviewerIDs = <<>> THEN [ok |-> TRUE, db |-> d]
    ELSE LET u == Head(reviewerIDs) IN
         IF u \notin DOMAIN d.users \/ <<prID, u>> \in DOMAIN d.reviewers
         THEN [ok |-> FALSE, db |-> d]
         ELSE InsertReviewers(
                 [d EXCEPT !.reviewers =
                     [k \in (DOMAIN @) \cup {<<prID, u>>} |->
                         IF k = <<prID, u>> THEN TRUE ELSE @[k]]],
                 prID, Tail(reviewerIDs))

\* mutant: an existing pull request row is overwritten
RepoCreatePR_Overwrite(d, prID, title, authorID, reviewerIDs) ==
    IF authorID \notin DOMAIN d.users THEN Out(d, ErrOther, <<>>)
    ELSE LET d1 == [d EXCEPT !.pull_requests =
                        [p \in (DOMAIN @) \cup {prID} |->
                            IF p = prID
                            THEN [title |-> title, author |-> authorID,
                                  status |-> "OPEN", merged_at |-> NULL]
                            ELSE @[p]]]
             r == InsertReviewers(d1, prID, reviewerIDs)
         IN IF r.ok THEN Out(r.db, nil, <<>>) ELSE Out(d, ErrOther, <<>>)

\* mutant: a failed reviewer INSERT returns without the rollback
RepoCreatePR_NoRollback(d, prID, title, authorID, reviewerIDs) ==
    IF prID \in DOMAIN d.pull_requests THEN Out(d, ErrPRExists, <<>>)
    ELSE IF authorID \notin DOMAIN d.users THEN Out(d, ErrOther, <<>>)
    ELSE LET d1 == [d EXCEPT !.pull_requests =
                        [p \in (DOMAIN @) \cup {prID} |->
                            IF p = prID
                            THEN [title |-> title, author |-> authorID,
                                  status |-> "OPEN", merged_at |-> NULL]
                            ELSE @[p]]]
             r == InsertReviewers(d1, prID, reviewerIDs)
         IN IF r.ok THEN Out(r.db, nil, <<>>) ELSE Out(r.db, ErrOther, <<>>)

RepoCreatePR(d, prID, title, authorID, reviewerIDs) ==
    IF prID \in DOMAIN d.pull_requests THEN Out(d, ErrPRExists, <<>>)
    ELSE IF authorID \notin DOMAIN d.users THEN Out(d, ErrOther, <<>>)
    ELSE LET d1 == [d EXCEPT !.pull_requests =
                        [p \in (DOMAIN @) \cup {prID} |->
                            IF p = prID
                            THEN [title |-> title, author |-> authorID,
                                  status |-> "OPEN", merged_at |-> NULL]
                            ELSE @[p]]]
             r == InsertReviewers(d1, prID, reviewerIDs)
         IN IF r.ok THEN Out(r.db, nil, <<>>) ELSE Out(d, ErrOther, <<>>)

\* ---- RepositoryImpl.MergePR ----------------------------------------------
\* mutant: the UPDATE has no "AND status != 'MERGED'"
RepoMergePR_Restamp(d, prID, now) ==
    IF prID \in DOMAIN d.pull_requests
    THEN LET d1 == [d EXCEPT !.pull_requests[prID].status = "MERGED",
                             !.pull_requests[prID].merged_at = now]
         IN Out(d1, nil, PRRecord(d1, prID, {}))
    ELSE Out(d, ErrNotFound, NoPR)

\* mutant: the merge also closes the reviewers rows of the pull request
RepoMergePR_CloseReviews(d, prID, now) ==
    IF prID \in DOMAIN d.pull_requests /\ d.pull_requests[prID].status # "MERGED"
    THEN LET d1 == [d EXCEPT !.pull_requests[prID].status = "MERGED",
                             !.pull_requests[prID].merged_at = now,
                             !.reviewers = [k \in DOMAIN @ |-> @[k] /\ k[1] # prID]]
         IN Out(d1, nil, PRRecord(d1, prID, {}))
    ELSE IF prID \in DOMAIN d.pull_requests /\ d.pull_requests[prID].status = "MERGED"
    THEN RepoGetPR(d, prID)
    ELSE Out(d, ErrNotFound, NoPR)

\* mutant: a pull request that is not there is reported as merged
RepoMergePR_MissingIsMerged(d, prID, now) ==
    IF prID \in DOMAIN d.pull_requests /\ d.pull_requests[prID].status # "MERGED"
    THEN LET d1 == [d EXCEPT !.pull_requests[prID].status = "MERGED",
                             !.pull_requests[prID].merged_at = now]
         IN Out(d1, nil, PRRecord(d1, prID, {}))
    ELSE IF prID \in DOMAIN d.pull_requests
    THEN RepoGetPR(d, prID)
    ELSE Out(d, nil, NoPR)

RepoMergePR(d, prID, now) ==
    IF prID \in DOMAIN d.pull_requests /\ d.pull_requests[prID].status # "MERGED"
    THEN LET d1 == [d EXCEPT !.pull_requests[prID].status = "MERGED",
                             !.pull_requests[prID].merged_at = now]
         \* the RETURNING row is scanned into pr; AssignedReviewers stays nil
         IN Out(d1, nil, PRRecord(d1, prID, {}))
    ELSE IF prID \in DOMAIN d.pull_requests /\ d.pull_requests[prID].status = "MERGED"
    THEN RepoGetPR(d, prID)
    ELSE Out(d, ErrNotFound, NoPR)

\* ---- RepositoryImpl.ReassignReviewer -------------------------------------
\* the rows of: pull_requests JOIN team_members JOIN teams for the PR
AuthorTeams(d, prID) ==
    {t \in d.teams : <<t, d.pull_requests[prID].author>> \in d.team_members}

\* mutant: the author is not excluded from the replacement query
ReplacementCandidates_WithAuthor(d, prID, teamID, authorID, oldUserID) ==
    {u \in DOMAIN d.users :
        /\ <<teamID, u>> \in d.team_members
        /\ u # oldUserID
        /\ d.users[u].is_active
        /\ u \notin ActiveReviewers(d, prID)}

\* mutant: the replacement query does not join the team of the author
ReplacementCandidates_AnyTeam(d, prID, teamID, authorID, oldUserID) ==
    {u \in DOMAIN d.users :
        /\ u # authorID
        /\ u # oldUserID
        /\ d.users[u].is_active
        /\ u \notin ActiveReviewers(d, prID)}

\* mutant: inactive users are not excluded from the replacement query
ReplacementCandidates_IgnoreActive(d, prID, teamID, authorID, oldUserID) ==
    {u \in DOMAIN d.users :
        /\ <<teamID, u>> \in d.team_members
        /\ u # authorID
        /\ u # oldUserID
        /\ u \notin ActiveReviewers(d, prID)}

\* the rows of the replacement query, before LIMIT 1
ReplacementCandidates(d, prID, teamID, authorID, oldUserID) ==
    {u \in DOMAIN d.users :
        /\ <<teamID, u>> \in d.team_members
        /\ u # authorID
        /\ u # oldUserID
        /\ d.users[u].is_active
        /\ u \notin ActiveReviewers(d, prID)}

\* mutant: the old row is not deactivated
InstallReplacement_KeepOld(d, prID, oldUserID, newUserID) ==
    IF <<prID, newUserID>> \in DOMAIN d.reviewers
    THEN Out(d, ErrOther, NoUser)
    ELSE Out([d EXCEPT !.reviewers =
                 [k \in (DOMAIN @) \cup {<<prID, newUserID>>} |->
                     IF k = <<prID, newUserID>> THEN TRUE ELSE @[k]]],
             nil, newUserID)

\* mutant: the INSERT is an upsert that sets is_active = true
InstallReplacement_Reactivate(d, prID, oldUserID, newUserID) ==
    Out([d EXCEPT !.reviewers =
            [k \in (DOMAIN @) \cup {<<prID, newUserID>>} |->
                IF k = <<prID, newUserID>> THEN TRUE
                ELSE IF k = <<prID, oldUserID>> THEN FALSE
                ELSE @[k]]],
        nil, newUserID)

\* UPDATE reviewers SET is_active = false; INSERT the new row; Commit
InstallReplacement(d, prID, oldUserID, newUserID) ==
    IF <<prID, newUserID>> \in DOMAIN d.reviewers
    THEN Out(d, ErrOther, NoUser)
    ELSE Out([d EXCEPT !.reviewers =
                 [k \in (DOMAIN @) \cup {<<prID, newUserID>>} |->
                     IF k = <<prID, newUserID>> THEN TRUE
                     ELSE IF k = <<prID, oldUserID>> THEN FALSE
                     ELSE @[k]]],
             nil, newUserID)

\* mutant: the status is not looked at
RepoReassignReviewer_NoMergedCheck(d, prID, oldUserID) ==
    IF prID \notin DOMAIN d.pull_requests THEN {Out(d, ErrNotFound, NoUser)}
    ELSE IF oldUserID \notin ActiveReviewers(d, prID) THEN {Out(d, ErrNotAssigned, NoUser)}
    ELSE IF AuthorTeams(d, prID) = {} THEN {Out(d, ErrOther, NoUser)}
    ELSE UNION {
        LET authorID == d.pull_requests[prID].author
            C == ReplacementCandidates(d, prID, teamID, authorID, oldUserID)
        IN IF C = {} THEN {Out(d, ErrNoCandidate, NoUser)}
           ELSE {InstallReplacement(d, prID, oldUserID, newUserID) : newUserID \in C}
        : teamID \in AuthorTeams(d, prID)}

\* mutant: is_active of the old row is not looked at
RepoReassignReviewer_NoAssignedCheck(d, prID, oldUserID) ==
    IF prID \notin DOMAIN d.pull_requests THEN {Out(d, ErrNotFound, NoUser)}
    ELSE IF d.pull_requests[prID].status = "MERGED" THEN {Out(d, ErrPRMerged, NoUser)}
    ELSE IF AuthorTeams(d, prID) = {} THEN {Out(d, ErrOther, NoUser)}
    ELSE UNION {
        LET authorID == d.pull_requests[prID].author
            C == ReplacementCandidates(d, prID, teamID, authorID, oldUserID)
        IN IF C = {} THEN {Out(d, ErrNoCandidate, NoUser)}
           ELSE {InstallReplacement(d, prID, oldUserID, newUserID) : newUserID \in C}
        : teamID \in AuthorTeams(d, prID)}

\* The team row that Scan reads and the row LIMIT 1 keeps are not fixed by
\* any ORDER BY: every row of the result is a possible outcome.
RepoReassignReviewer(d, prID, oldUserID) ==
    IF prID \notin DOMAIN d.pull_requests THEN {Out(d, ErrNotFound, NoUser)}
    ELSE IF d.pull_requests[prID].status = "MERGED" THEN {Out(d, ErrPRMerged, NoUser)}
    ELSE IF oldUserID \notin ActiveReviewers(d, prID) THEN {Out(d, ErrNotAssigned, NoUser)}
    ELSE IF AuthorTeams(d, prID) = {} THEN {Out(d, ErrOther, NoUser)}
    ELSE UNION {
        LET authorID == d.pull_requests[prID].author
            C == ReplacementCandidates(d, prID, teamID, authorID, oldUserID)
        IN IF C = {} THEN {Out(d, ErrNoCandidate, NoUser)}
           ELSE {InstallReplacement(d, prID, oldUserID, newUserID) : newUserID \in C}
        : teamID \in AuthorTeams(d, prID)}

\* ---- RepositoryImpl.GetStats ---------------------------------------------
RECURSIVE SumOver(_, _)
\* the sum of f over the set S
SumOver(f, S) ==
    IF S = {} THEN 0
    ELSE LET x == CHOOSE x \in S : TRUE IN f[x] + SumOver(f, S \ {x})

\* mutant: the join has no "AND r.is_active = true"
UserAssignmentCounts_AllRows(d) ==
    [u \in DOMAIN d.users |->
        Cardinality({k \in DOMAIN d.reviewers : k[2] = u})]

\* users LEFT JOIN reviewers ... GROUP BY u.user_id: one row per user
UserAssignmentCounts(d) ==
    [u \in DOMAIN d.users |->
        Cardinality({k \in DOMAIN d.reviewers : k[2] = u /\ d.reviewers[k]})]

\* pull_requests LEFT JOIN reviewers ... GROUP BY pr.pull_request_id
PRAssignmentCounts(d) ==
    [p \in DOMAIN d.pull_requests |->
        Cardinality({k \in DOMAIN d.reviewers : k[1] = p /\ d.reviewers[k]})]

\* The two queries are two statements: the first reads dUsers, the second
\* dPRs.  TotalAssignments adds up the counts of the first.  The rows are
\* kept as functions: their order (by count, descending) is not modelled.
StatsOf(dUsers, dPRs) ==
    LET uc == UserAssignmentCounts(dUsers) IN
    [user_counts |-> uc,
     pr_counts |-> PRAssignmentCounts(dPRs),
     total |-> SumOver(uc, DOMAIN uc)]

GetStats(d) == StatsOf(d, d)

\* ---- ServiceImpl (internal/service/service.go) ---------------------------
SvcCreateTeam(d, teamName, members) == RepoCreateTeam(d, teamName, members)

SvcSetUserActive(d, userID, isActive) == RepoSetUserActive(d, userID, isActive)

\* mutant: an empty candidate list is not refused
SvcCreatePR_NoCandidateCheck(d, prID, title, authorID) ==
    LET a == RepoSetUserActive(d, authorID, TRUE) IN
    IF a.err # nil THEN Out(a.db, ErrAuthorNotFound, NoPR)
    ELSE LET candidateIDs == GetCandidateReviewers(a.db, authorID, ReviewerLimit)
             c == RepoCreatePR(a.db, prID, title, authorID, candidateIDs)
         IN IF c.err # nil THEN Out(c.db, c.err, NoPR)
            ELSE RepoGetPR(c.db, prID)

SvcCreatePR(d, prID, title, authorID) ==
    LET a == RepoSetUserActive(d, authorID, TRUE) IN
    IF a.err # nil THEN Out(a.db, ErrAuthorNotFound, NoPR)
    ELSE IF ~a.ret.is_active THEN Out(a.db, ErrOther, NoPR)
    ELSE LET candidateIDs == GetCandidateReviewers(a.db, authorID, ReviewerLimit) IN
         IF Len(candidateIDs) = 0 THEN Out(a.db, ErrNoCandidate, NoPR)
         ELSE LET c == RepoCreatePR(a.db, prID, title, authorID, candidateIDs) IN
              IF c.err # nil THEN Out(c.db, c.err, NoPR)
              ELSE RepoGetPR(c.db, prID)

SvcMergePR(d, prID, now) == RepoMergePR(d, prID, now)

SvcReassignReviewer(d, prID, oldUserID) ==
    LET g == RepoGetPR(d, prID)
        fail(e) == {Out(d, e, [pr |-> NoPR, newUserID |-> NoUser])}
    IN IF g.err # nil THEN fail(g.err)
       ELSE IF g.ret.status # "OPEN" THEN fail(ErrPRMerged)
       ELSE IF oldUserID \notin g.ret.reviewers THEN fail(ErrNotAssigned)
       ELSE {IF r.err # nil
             THEN Out(r.db, r.err, [pr |-> NoPR, newUserID |-> NoUser])
             ELSE Out(r.db, nil, [pr |-> RepoGetPR(r.db, prID).ret, newUserID |-> r.ret])
             : r \in RepoReassignReviewer(d, prID, oldUserID)}

\* ---- Handlers.CreatePR (internal/handler/handlers.go) --------------------
\* switch err { case entity.ErrPRExists: ... }: the cases compare the error
\* value itself, a wrapping error matches none of them
CreatePRError(err) ==
    IF err = ErrPRExists THEN [status |-> 409, code |-> "PR_EXISTS"]
    ELSE IF err = ErrNotFound THEN [status |-> 404, code |-> "NOT_FOUND"]
    ELSE IF err = ErrNoCandidate THEN [status |-> 404, code |-> "NO_CANDIDATE"]
    ELSE [status |-> 500, code |-> "INTERNAL_ERROR"]

\* the reply to a well-formed request
HandlerCreatePR(d, prID, title, authorID) ==
    LET o == SvcCreatePR(d, prID, title, authorID) IN
    IF o.err # nil THEN CreatePRError(o.err)
    ELSE [status |-> 201, code |-> ""]

\* ---- the service called one request at a time ----------------------------
Workers == {1, 2}

\* A call in flight: its name and arguments, the statement it runs next
\* (pc), what its statements have read so far, the row lock (lock) and the
\* uncommitted INSERT (ins) of its open transaction, and its reply.
Proc(op, pc, prID, oldUserID) ==
    [op |-> op, pc |-> pc, prID |-> prID, oldUserID |-> oldUserID,
     after |-> "", pr |-> NoPR, teamID |-> "", newUserID |-> NoUser,
     lock |-> FALSE, ins |-> FALSE, err |-> nil, ret |-> NoPR]

Idle == Proc("idle", "idle", "", NoUser)

\* One call: its outcome o becomes the datastore and the reply.  The clock
\* is CURRENT_TIMESTAMP: it has moved on whenever a later call reads it, so
\* it is advanced past every timestamp that has been stored.
Tick(d) ==
    IF \E p \in DOMAIN d.pull_requests : d.pull_requests[p].merged_at = clock
    THEN clock + 1 ELSE clock

Called(o, op) ==
    /\ db' = o.db
    /\ last' = [op |-> op, err |-> o.err, changed |-> (o.db # db)]
    /\ clock' = Tick(o.db)
    /\ UNCHANGED procs

Init ==
    /\ db = EmptyDB
    /\ clock = 1
    /\ last = [op |-> "none", err |-> nil, changed |-> FALSE]
    /\ procs = [w \in Workers |-> Idle]

\* When the name is taken the members are never read: one list stands for all.
CreateTeam ==
    \E teamName \in CalledTeamNames :
        \E members \in (IF TeamNameTaken(db, teamName) THEN {<<>>} ELSE MemberLists) :
            Called(SvcCreateTeam(db, teamName, members), "CreateTeam")

SetUserActive ==
    \E userID \in UserIds, isActive \in BOOLEAN :
        Called(SvcSetUserActive(db, userID, isActive), "SetUserActive")

CreatePR ==
    \E prID \in PRIds, title \in Titles, authorID \in AuthorIds :
        Called(SvcCreatePR(db, prID, title, authorID), "CreatePR")

MergePR ==
    \E prID \in PRIds :
        Called(SvcMergePR(db, prID, clock), "MergePR")

ReassignReviewer ==
    \E prID \in PRIds, oldUserID \in UserIds :
        \E o \in SvcReassignReviewer(db, prID, oldUserID) :
            Called(o, "ReassignReviewer")

\* the repository method called directly, as the repository tests call it
RepoReassign ==
    \E prID \in PRIds, oldUserID \in UserIds :
        \E o \in RepoReassignReviewer(db, prID, oldUserID) :
            Called(o, "Repo.ReassignReviewer")

CandidateReviewers ==
    \E authorID \in UserIds, limit \in 0..MaxLimit :
        Called(Out(db, nil, GetCandidateReviewers(db, authorID, limit)),
               "GetCandidateReviewers")

GetStatsCall ==
    Called(Out(db, nil, GetStats(db)), "GetStats")

Next ==
    \/ CreateTeam
    \/ SetUserActive
    \/ CreatePR
    \/ MergePR
    \/ ReassignReviewer
    \/ RepoReassign
    \/ CandidateReviewers
    \/ GetStatsCall

Spec == Init /\ [][Next]_vars

\* ---- concurrent calls, statement by statement ----------------------------
\* Every statement reads the rows committed when it runs (READ COMMITTED);
\* the writes of an open transaction reach db at Commit.  An UPDATE waits
\* for the row lock of another open transaction, an INSERT waits for an
\* uncommitted INSERT of the same key.  The UPDATE of MergePR takes no lock
\* an open ReassignReviewer transaction holds: the transaction locks rows of
\* reviewers only (and the pull request FOR KEY SHARE through the foreign
\* key, which an update of status and merged_at does not conflict with).

\* teams "t" = {1, 2} and "s" = {1, 3, 4}, pull request p1 of user 1 created
\* while 3 and 4 were inactive and so reviewed by user 2 alone, and the users
\* of S activated afterwards
ConcDB(S) ==
    LET m(i, a) == [id |-> i, username |-> "a", is_active |-> a]
        d1 == RepoCreateTeam(EmptyDB, "t", <<m(1, TRUE), m(2, TRUE)>>).db
        d2 == RepoCreateTeam(d1, "s", <<m(1, TRUE), m(3, FALSE), m(4, FALSE)>>).db
        d3 == SvcCreatePR(d2, "p1", "x", 1).db
    IN [d3 EXCEPT !.users = [u \in DOMAIN @ |->
                                IF u \in S THEN [@[u] EXCEPT !.is_active = TRUE]
                                ELSE @[u]]]

ConcInit ==
    /\ \E S \in SUBSET {3, 4} : db = ConcDB(S)
    /\ clock = 1
    /\ last = [op |-> "none", err |-> nil, changed |-> FALSE]
    /\ procs = [w \in Workers |-> Idle]

Step(w, p) == /\ procs' = [procs EXCEPT ![w] = p]
              /\ UNCHANGED <<db, clock, last>>

Done(p, e, r) == [p EXCEPT !.pc = "done", !.err = e, !.ret = r,
                           !.lock = FALSE, !.ins = FALSE]

At(w, pc) == procs[w].pc = pc

\* a request arrives
StartMergePR(w) ==
    /\ At(w, "idle")
    /\ \E prID \in {"p1"} : Step(w, Proc("MergePR", "merge.update", prID, NoUser))

StartReassignReviewer(w) ==
    /\ At(w, "idle")
    /\ \E prID \in {"p1"}, oldUserID \in {2, 3} :
        Step(w, [Proc("ReassignReviewer", "getpr.row", prID, oldUserID)
                    EXCEPT !.after = "check"])

\* RepositoryImpl.GetPR, first statement
GetPRRow(w) ==
    /\ At(w, "getpr.row")
    /\ LET p == procs[w] IN
       IF p.prID \notin DOMAIN db.pull_requests
       THEN Step(w, Done(p, ErrNotFound, NoPR))
       ELSE Step(w, [p EXCEPT !.pc = "getpr.reviewers",
                              !.pr = PRRecord(db, p.prID, {})])

\* RepositoryImpl.GetPR, r.GetPRReviewers; then what the caller does with
\* the record: ServiceImpl.ReassignReviewer checks it and calls the
\* repository, the other callers return it
GetPRReviewersStep(w) ==
    /\ At(w, "getpr.reviewers")
    /\ LET p == procs[w]
           pr == [p.pr EXCEPT !.reviewers = GetPRReviewers(db, p.prID)]
       IN IF p.after # "check" THEN Step(w, Done(p, nil, pr))
          ELSE IF pr.status # "OPEN" THEN Step(w, Done(p, ErrPRMerged, NoPR))
          ELSE IF p.oldUserID \notin pr.reviewers THEN Step(w, Done(p, ErrNotAssigned, NoPR))
          ELSE Step(w, [p EXCEPT !.pc = "tx.status", !.pr = pr])

\* RepositoryImpl.ReassignReviewer: SELECT status
TxSelectStatus(w) ==
    /\ At(w, "tx.status")
    /\ LET p == procs[w] IN
       IF p.prID \notin DOMAIN db.pull_requests THEN Step(w, Done(p, ErrNotFound, NoPR))
       ELSE IF db.pull_requests[p.prID].status = "MERGED" THEN Step(w, Done(p, ErrPRMerged, NoPR))
       ELSE Step(w, [p EXCEPT !.pc = "tx.assigned"])

\* SELECT EXISTS(... is_active = true)
TxSelectAssigned(w) ==
    /\ At(w, "tx.assigned")
    /\ LET p == procs[w] IN
       IF p.oldUserID \notin ActiveReviewers(db, p.prID)
       THEN Step(w, Done(p, ErrNotAssigned, NoPR))
       ELSE Step(w, [p EXCEPT !.pc = "tx.team"])

\* SELECT pr.author_id, t.team_id
TxSelectTeam(w) ==
    /\ At(w, "tx.team")
    /\ LET p == procs[w] IN
       IF AuthorTeams(db, p.prID) = {} THEN Step(w, Done(p, ErrOther, NoPR))
       ELSE \E teamID \in AuthorTeams(db, p.prID) :
                Step(w, [p EXCEPT !.pc = "tx.candidate", !.teamID = teamID])

\* SELECT u.user_id ... LIMIT 1
TxSelectCandidate(w) ==
    /\ At(w, "tx.candidate")
    /\ LET p == procs[w]
           C == ReplacementCandidates(db, p.prID, p.teamID,
                                      db.pull_requests[p.prID].author, p.oldUserID)
       IN IF C = {} THEN Step(w, Done(p, ErrNoCandidate, NoPR))
          ELSE \E newUserID \in C :
                   Step(w, [p EXCEPT !.pc = "tx.update", !.newUserID = newUserID])

\* UPDATE reviewers SET is_active = false: waits while another open
\* transaction holds the lock of the row
TxUpdateOld(w) ==
    /\ At(w, "tx.update")
    /\ LET p == procs[w] IN
       /\ ~\E v \in Workers \ {w} :
              procs[v].lock /\ procs[v].prID = p.prID /\ procs[v].oldUserID = p.oldUserID
       /\ Step(w, [p EXCEPT !.pc = "tx.insert", !.lock = TRUE])

\* INSERT INTO reviewers: waits for an uncommitted INSERT of the same key,
\* fails on a committed row with the key (the transaction rolls back)
TxInsertNew(w) ==
    /\ At(w, "tx.insert")
    /\ LET p == procs[w] IN
       /\ ~\E v \in Workers \ {w} :
              procs[v].ins /\ procs[v].prID = p.prID /\ procs[v].newUserID = p.newUserID
       /\ IF InstallReplacement(db, p.prID, p.oldUserID, p.newUserID).err # nil
          THEN Step(w, Done(p, ErrOther, NoPR))
          ELSE Step(w, [p EXCEPT !.pc = "tx.commit", !.ins = TRUE])

\* tx.Commit(); the service goes on to GetPR
TxCommit(w) ==
    /\ At(w, "tx.commit")
    /\ LET p == procs[w] IN
       /\ db' = InstallReplacement(db, p.prID, p.oldUserID, p.newUserID).db
       /\ procs' = [procs EXCEPT ![w] = [p EXCEPT !.pc = "getpr.row", !.after = "return",
                                                  !.lock = FALSE, !.ins = FALSE]]
       /\ UNCHANGED <<clock, last>>

\* RepositoryImpl.MergePR: UPDATE ... WHERE status != 'MERGED' RETURNING
MergeUpdate(w) ==
    /\ At(w, "merge.update")
    /\ LET p == procs[w]
           o == RepoMergePR(db, p.prID, clock)
       IN IF o.db # db
          THEN /\ db' = o.db
               /\ clock' = clock + 1
               /\ procs' = [procs EXCEPT ![w] = Done(p, nil, o.ret)]
               /\ UNCHANGED last
          ELSE Step(w, [p EXCEPT !.pc = "merge.status"])

\* no row was updated: SELECT status, then GetPR or ErrNotFound
MergeSelectStatus(w) ==
    /\ At(w, "merge.status")
    /\ LET p == procs[w] IN
       IF p.prID \in DOMAIN db.pull_requests /\ db.pull_requests[p.prID].status = "MERGED"
       THEN Step(w, [p EXCEPT !.pc = "getpr.row", !.after = "return"])
       ELSE Step(w, Done(p, ErrNotFound, NoPR))

ConcNext ==
    \E w \in Workers :
        \/ StartMergePR(w)
        \/ StartReassignReviewer(w)
        \/ GetPRRow(w)
        \/ GetPRReviewersStep(w)
        \/ TxSelectStatus(w)
        \/ TxSelectAssigned(w)
        \/ TxSelectTeam(w)
        \/ TxSelectCandidate(w)
        \/ TxUpdateOld(w)
        \/ TxInsertNew(w)
        \/ TxCommit(w)
        \/ MergeUpdate(w)
        \/ MergeSelectStatus(w)

ConcSpec == ConcInit /\ [][ConcNext]_vars

\* ---- the repository called directly, one call at a time ------------------
\* RepositoryImpl's methods as the repository tests call them: with member
\* lists and reviewer lists of the caller's choice.  last also holds the
\* name (team name or pull request id) and the user ids the call was given.
ReviewerLists == UNION {[1..n -> UserIds] : n \in 0..ReviewerLimit}

\* the calls of RepoSpec list active members and use one pull request id
ActiveMemberLists ==
    {members \in MemberLists : \A i \in DOMAIN members : members[i].is_active}

RepoPRIds == {"p1"}

RepoCalled(o, op, name, ids) ==
    /\ db' = o.db
    /\ last' = [op |-> op, err |-> o.err, changed |-> (o.db # db),
                name |-> name, ids |-> ids]
    /\ clock' = Tick(o.db)
    /\ UNCHANGED procs

RepoInit ==
    /\ db = EmptyDB
    /\ clock = 1
    /\ last = [op |-> "none", err |-> nil, changed |-> FALSE,
               name |-> "", ids |-> <<>>]
    /\ procs = [w \in Workers |-> Idle]

RepoCreateTeamCall ==
    \E name \in TeamNames, members \in ActiveMemberLists :
        RepoCalled(RepoCreateTeam(db, name, members), "Repo.CreateTeam",
                   name, [i \in DOMAIN members |-> members[i].id])

RepoCreatePRCall ==
    \E prID \in RepoPRIds, title \in Titles, authorID \in AuthorIds,
       reviewerIDs \in ReviewerLists :
        RepoCalled(RepoCreatePR(db, prID, title, authorID, reviewerIDs),
                   "Repo.CreatePR", prID, reviewerIDs)

RepoMergePRCall ==
    \E prID \in RepoPRIds :
        RepoCalled(RepoMergePR(db, prID, clock), "Repo.MergePR", prID, <<>>)

RepoNext ==
    \/ RepoCreateTeamCall
    \/ RepoCreatePRCall
    \/ RepoMergePRCall

RepoSpec == RepoInit /\ [][RepoNext]_vars

\* ---- concurrent CreateTeam calls, statement by statement -----------------
\* The transaction of RepositoryImpl.CreateTeam under READ COMMITTED.  The
\* SELECT sees committed rows only.  The INSERT INTO teams meets the UNIQUE
\* constraint of team_name, which compares names exactly: it waits for an
\* uncommitted row of the same name and fails on a committed one.  The
\* upsert of a user waits for the row lock of another open transaction.
TeamCallNames == {"t", "T"}
TeamCallMembers == {members \in ActiveMemberLists : Len(members) <= 1}

TeamProc(pc, name, members) ==
    [op |-> "CreateTeam", pc |-> pc, name |-> name, members |-> members,
     i |-> 1, ins |-> FALSE, locks |-> {}, err |-> nil]

TeamIdle == TeamProc("idle", "", <<>>)

TeamDone(p, e) == [p EXCEPT !.pc = "done", !.err = e, !.ins = FALSE, !.locks = {}]

TeamConcInit ==
    /\ db = EmptyDB
    /\ clock = 1
    /\ last = [op |-> "none", err |-> nil, changed |-> FALSE]
    /\ procs = [w \in Workers |-> TeamIdle]

StartCreateTeam(w) ==
    /\ At(w, "idle")
    /\ \E name \in TeamCallNames, members \in TeamCallMembers :
           Step(w, TeamProc("team.select", name, members))

\* SELECT team_id FROM teams WHERE LOWER(team_name) = LOWER($1)
TeamSelect(w) ==
    /\ At(w, "team.select")
    /\ LET p == procs[w] IN
       IF TeamNameTaken(db, p.name) THEN Step(w, TeamDone(p, ErrTeamExists))
       ELSE Step(w, [p EXCEPT !.pc = "team.insert"])

\* INSERT INTO teams (team_name) VALUES ($1) RETURNING team_id
TeamInsert(w) ==
    /\ At(w, "team.insert")
    /\ LET p == procs[w] IN
       /\ ~\E v \in Workers \ {w} : procs[v].ins /\ procs[v].name = p.name
       /\ IF p.name \in db.teams THEN Step(w, TeamDone(p, ErrOther))
          ELSE Step(w, [p EXCEPT !.pc = "team.user", !.ins = TRUE])

\* the loop over members: INSERT INTO users ... ON CONFLICT DO UPDATE
TeamUpsertUser(w) ==
    /\ At(w, "team.user")
    /\ LET p == procs[w] IN
       IF p.i > Len(p.members) THEN Step(w, [p EXCEPT !.pc = "team.commit"])
       ELSE /\ ~\E v \in Workers \ {w} : p.members[p.i].id \in procs[v].locks
            /\ Step(w, [p EXCEPT !.pc = "team.link",
                                 !.locks = @ \cup {p.members[p.i].id}])

\* INSERT INTO team_members ... ON CONFLICT DO NOTHING
TeamLinkMember(w) ==
    /\ At(w, "team.link")
    /\ Step(w, [procs[w] EXCEPT !.pc = "team.user", !.i = @ + 1])

\* tx.Commit(): the rows of the transaction become visible
TeamCommit(w) ==
    /\ At(w, "team.commit")
    /\ LET p == procs[w] IN
       /\ db' = InsertMembers([db EXCEPT !.teams = @ \cup {p.name}], p.name, p.members)
       /\ procs' = [procs EXCEPT ![w] = TeamDone(p, nil)]
       /\ UNCHANGED <<clock, last>>

TeamConcNext ==
    \E w \in Workers :
        \/ StartCreateTeam(w)
        \/ TeamSelect(w)
        \/ TeamInsert(w)
        \/ TeamUpsertUser(w)
        \/ TeamLinkMember(w)
        \/ TeamCommit(w)

TeamConcSpec == TeamConcInit /\ [][TeamConcNext]_vars

\* ---- concurrent CreatePR, SetUserActive and GetStats calls ---------------
\* ServiceImpl.CreatePR statement by statement under READ COMMITTED.  The
\* UPDATE of SetUserActive and the query of GetCandidateReviewers run on the
\* pool, each in its own implicit transaction; only the statements of
\* RepositoryImpl.CreatePR share a transaction, whose rows become visible at
\* tx.Commit().  The INSERT INTO pull_requests waits for an uncommitted row
\* of the same id and fails on a committed one.  The foreign keys of the
\* inserted rows lock the users rows FOR KEY SHARE, which an UPDATE of
\* is_active does not wait for.  The two queries of GetStats run on the pool
\* one after the other, each seeing what is committed when it starts.

\* team "t" of four active users, no pull request yet
PRConcDB ==
    LET m(i) == [id |-> i, username |-> "a", is_active |-> TRUE]
    IN RepoCreateTeam(EmptyDB, "t", <<m(1), m(2), m(3), m(4)>>).db

PRConcAuthors == {1, 2}
PRConcUsers == {2, 3}

PRProc(op, pc, prID, authorID, userID, isActive) ==
    [op |-> op, pc |-> pc, prID |-> prID, authorID |-> authorID,
     userID |-> userID, isActive |-> isActive,
     candidateIDs |-> <<>>, ins |-> FALSE, snap |-> EmptyDB,
     err |-> nil, pr |-> NoPR, stats |-> GetStats(EmptyDB)]

PRIdle == PRProc("idle", "idle", "", NoUser, NoUser, FALSE)

PRDone(p, e) == [p EXCEPT !.pc = "done", !.err = e, !.ins = FALSE]

PRConcInit ==
    /\ db = PRConcDB
    /\ clock = 1
    /\ last = [op |-> "none", err |-> nil, changed |-> FALSE]
    /\ procs = [w \in Workers |-> PRIdle]

\* a statement that commits on its own
Commits(w, d, p) ==
    /\ db' = d
    /\ procs' = [procs EXCEPT ![w] = p]
    /\ UNCHANGED <<clock, last>>

StartCreatePR(w) ==
    /\ At(w, "idle")
    /\ \E prID \in PRIds, authorID \in PRConcAuthors :
           Step(w, PRProc("CreatePR", "pr.author", prID, authorID, NoUser, FALSE))

\* s.repo.SetUserActive(authorID, true)
PRActivateAuthor(w) ==
    /\ At(w, "pr.author")
    /\ LET p == procs[w]
           a == RepoSetUserActive(db, p.authorID, TRUE)
       IN IF a.err # nil THEN Commits(w, a.db, PRDone(p, ErrAuthorNotFound))
          ELSE IF ~a.ret.is_active THEN Commits(w, a.db, PRDone(p, ErrOther))
          ELSE Commits(w, a.db, [p EXCEPT !.pc = "pr.candidates"])

\* s.repo.GetCandidateReviewers(authorID, 2)
PRCandidates(w) ==
    /\ At(w, "pr.candidates")
    /\ LET p == procs[w]
           candidateIDs == GetCandidateReviewers(db, p.authorID, ReviewerLimit)
       IN IF Len(candidateIDs) = 0 THEN Step(w, PRDone(p, ErrNoCandidate))
          ELSE Step(w, [p EXCEPT !.pc = "pr.select", !.candidateIDs = candidateIDs])

\* SELECT pull_request_id FROM pull_requests WHERE pull_request_id = $1
PRSelect(w) ==
    /\ At(w, "pr.select")
    /\ LET p == procs[w] IN
       IF p.prID \in DOMAIN db.pull_requests THEN Step(w, PRDone(p, ErrPRExists))
       ELSE Step(w, [p EXCEPT !.pc = "pr.insert"])

\* INSERT INTO pull_requests ...
PRInsert(w) ==
    /\ At(w, "pr.insert")
    /\ LET p == procs[w] IN
       /\ ~\E v \in Workers \ {w} : procs[v].ins /\ procs[v].prID = p.prID
       /\ IF p.prID \in DOMAIN db.pull_requests \/ p.authorID \notin DOMAIN db.users
          THEN Step(w, PRDone(p, ErrOther))
          ELSE Step(w, [p EXCEPT !.pc = "pr.reviewers", !.ins = TRUE])

\* the loop of INSERT INTO reviewers: the pull request is new, so no row of
\* it exists, and users are never deleted
PRInsertReviewers(w) ==
    /\ At(w, "pr.reviewers")
    /\ LET p == procs[w] IN
       IF \E i \in DOMAIN p.candidateIDs : p.candidateIDs[i] \notin DOMAIN db.users
       THEN Step(w, PRDone(p, ErrOther))
       ELSE Step(w, [p EXCEPT !.pc = "pr.commit"])

\* tx.Commit(): the rows of the transaction become visible
PRCommit(w) ==
    /\ At(w, "pr.commit")
    /\ LET p == procs[w]
           c == RepoCreatePR(db, p.prID, "x", p.authorID, p.candidateIDs)
       IN Commits(w, c.db, [p EXCEPT !.pc = "pr.get", !.ins = FALSE])

\* return s.repo.GetPR(prID)
PRGet(w) ==
    /\ At(w, "pr.get")
    /\ LET p == procs[w]
           g == RepoGetPR(db, p.prID)
       IN Step(w, [PRDone(p, g.err) EXCEPT !.pr = g.ret])

StartSetUserActive(w) ==
    /\ At(w, "idle")
    /\ \E userID \in PRConcUsers, isActive \in BOOLEAN :
           Step(w, PRProc("SetUserActive", "active.update", "", NoUser, userID, isActive))

\* UPDATE users SET is_active = $1 WHERE user_id = $2
ActiveUpdate(w) ==
    /\ At(w, "active.update")
    /\ LET p == procs[w]
           a == RepoSetUserActive(db, p.userID, p.isActive)
       IN Commits(w, a.db, PRDone(p, a.err))

StartGetStats(w) ==
    /\ At(w, "idle")
    /\ Step(w, PRProc("GetStats", "stats.users", "", NoUser, NoUser, FALSE))

\* the query over users LEFT JOIN reviewers, and the loop that sums it
StatsUsers(w) ==
    /\ At(w, "stats.users")
    /\ Step(w, [procs[w] EXCEPT !.pc = "stats.prs", !.snap = db])

\* the query over pull_requests LEFT JOIN reviewers
StatsPRs(w) ==
    /\ At(w, "stats.prs")
    /\ LET p == procs[w] IN
       Step(w, [PRDone(p, nil) EXCEPT !.stats = StatsOf(p.snap, db)])

PRConcNext ==
    \E w \in Workers :
        \/ StartCreatePR(w)
        \/ PRActivateAuthor(w)
        \/ PRCandidates(w)
        \/ PRSelect(w)
        \/ PRInsert(w)
        \/ PRInsertReviewers(w)
        \/ PRCommit(w)
        \/ PRGet(w)
        \/ StartSetUserActive(w)
        \/ ActiveUpdate(w)
        \/ StartGetStats(w)
        \/ StatsUsers(w)
        \/ StatsPRs(w)

PRConcSpec == PRConcInit /\ [][PRConcNext]_vars

\* ==== the claims ==========================================================
PRs == DOMAIN db.pull_requests

\* number of reviewers rows with is_active = true
TotalActive(d) == Cardinality({k \in DOMAIN d.reviewers : d.reviewers[k]})

\* C1: no pull request has its own author among its active reviewers.
C1_NoSelfReview ==
    \A p \in PRs : db.pull_requests[p].author \notin ActiveReviewers(db, p)

C1_Witness ==
    /\ last.op = "ReassignReviewer" /\ last.err = nil
    /\ \E p \in PRs : ActiveReviewers(db, p) # {}

\* C2: a pull request appears with status OPEN, is never deleted, and once
\* MERGED it stays MERGED.
C2_OpenThenMerged ==
    [][\A p \in PRIds :
        /\ p \in DOMAIN db.pull_requests => p \in DOMAIN db'.pull_requests
        /\ (p \notin DOMAIN db.pull_requests /\ p \in DOMAIN db'.pull_requests)
              => db'.pull_requests[p].status = "OPEN"
        /\ (p \in DOMAIN db.pull_requests /\ db.pull_requests[p].status = "MERGED")
              => db'.pull_requests[p].status = "MERGED"]_vars

\* a later call (a failed CreatePR) has run on a datastore with a MERGED
\* pull request
C2_Witness ==
    /\ last.op = "CreatePR" /\ last.err = ErrPRExists
    /\ \A p \in PRIds : p \in PRs /\ db.pull_requests[p].status = "MERGED"

\* C3: on a MERGED pull request ReassignReviewer, of the service and of the
\* repository, fails with ErrPRMerged for every oldUserID and leaves the
\* reviewers rows as they are.
C3_MergedRejectsReassign ==
    \A p \in PRs, u \in UserIds :
        db.pull_requests[p].status = "MERGED" =>
            /\ \A o \in SvcReassignReviewer(db, p, u) :
                   o.err = ErrPRMerged /\ o.db.reviewers = db.reviewers
            /\ \A o \in RepoReassignReviewer(db, p, u) :
                   o.err = ErrPRMerged /\ o.db.reviewers = db.reviewers

\* the repository was called on a MERGED pull request that has an active
\* reviewer for whom a replacement candidate exists
C3_Witness ==
    /\ last.op = "Repo.ReassignReviewer" /\ last.err = ErrPRMerged
    /\ \E p \in PRs :
        /\ db.pull_requests[p].status = "MERGED"
        /\ \E u \in ActiveReviewers(db, p), t \in AuthorTeams(db, p) :
               ReplacementCandidates(db, p, t, db.pull_requests[p].author, u) # {}

\* C4: once a pull request is MERGED its set of active reviewers does not
\* change, whatever the interleaving of MergePR and ReassignReviewer.
C4_FrozenAfterMerge ==
    [][\A p \in DOMAIN db.pull_requests :
        db.pull_requests[p].status = "MERGED" =>
            ActiveReviewers(db', p) = ActiveReviewers(db, p)]_vars

\* C5: of two concurrent ReassignReviewer calls for the same pull request
\* and the same oldUserID at most one commits a replacement.
Installed(w) == procs[w].op = "ReassignReviewer" /\ procs[w].after = "return"

C5_OneReplacementPerSlot ==
    \A w \in Workers, v \in Workers :
        (/\ w # v
         /\ procs[w].prID = procs[v].prID
         /\ procs[w].oldUserID = procs[v].oldUserID)
        => ~(Installed(w) /\ Installed(v))

\* C6: a successful ReassignReviewer(p, u) keeps the total of active rows,
\* makes the row of u inactive, makes exactly one new row of p active, keeps
\* the number of active reviewers of p and lowers the number of active
\* assignments of u by one.
ReassignConserves(d, e, p, u) ==
    /\ TotalActive(e) = TotalActive(d)
    /\ e.reviewers[<<p, u>>] = FALSE
    /\ Cardinality(ActiveReviewers(e, p) \ ActiveReviewers(d, p)) = 1
    /\ \A k \in DOMAIN e.reviewers :
           (e.reviewers[k] /\ ~(k \in DOMAIN d.reviewers /\ d.reviewers[k])) => k[1] = p
    /\ Cardinality(ActiveReviewers(e, p)) = Cardinality(ActiveReviewers(d, p))
    /\ Cardinality(ActiveAssignments(e, u)) = Cardinality(ActiveAssignments(d, u)) - 1

C6_ReassignConservesAssignments ==
    \A p \in PRs, u \in UserIds :
        /\ \A o \in SvcReassignReviewer(db, p, u) :
               o.err = nil => ReassignConserves(db, o.db, p, u)
        /\ \A o \in RepoReassignReviewer(db, p, u) :
               o.err = nil => ReassignConserves(db, o.db, p, u)

C6_Witness ==
    /\ last.op = "ReassignReviewer" /\ last.err = nil /\ last.changed
    /\ \E k \in DOMAIN db.reviewers : ~db.reviewers[k]

\* C7: MergePR on a MERGED pull request succeeds, reports MERGED and the
\* stored merge timestamp and changes nothing; a merge followed by a later
\* merge reports the timestamp of the first.
C7_MergeIdempotent ==
    \A p \in PRs :
        LET o1 == SvcMergePR(db, p, clock)
            o2 == SvcMergePR(o1.db, p, clock + 1)
        IN /\ o1.err = nil /\ o2.err = nil
           /\ o2.ret.status = "MERGED"
           /\ o2.ret.merged_at = o1.ret.merged_at
           /\ o2.ret.merged_at # NULL
           /\ o2.db = o1.db
           /\ db.pull_requests[p].status = "MERGED" =>
                  /\ o1.db = db
                  /\ o1.ret.status = "MERGED"
                  /\ o1.ret.merged_at = db.pull_requests[p].merged_at

\* a MergePR call has returned without error and without a change
C7_Witness ==
    /\ last.op = "MergePR" /\ last.err = nil /\ ~last.changed
    /\ \E p \in PRs : db.pull_requests[p].merged_at # NULL /\ db.pull_requests[p].merged_at < clock

\* C8: GetCandidateReviewers(authorID, N) returns min(N, number of eligible
\* users) distinct ids, all of them eligible: in a team of the author, not
\* the author, active.
Eligible(d, authorID) ==
    {u \in DOMAIN d.users :
        /\ u # authorID
        /\ d.users[u].is_active
        /\ \E t \in d.teams : {<<t, u>>, <<t, authorID>>} \subseteq d.team_members}

C8_CandidatesAreTheEligible ==
    \A a \in UserIds, N \in 0..MaxLimit :
        LET r == GetCandidateReviewers(db, a, N) IN
        /\ Len(r) = Min(N, Cardinality(Eligible(db, a)))
        /\ \A i \in 1..Len(r) : r[i] \in Eligible(db, a)
        /\ \A i \in 1..Len(r), j \in 1..Len(r) : r[i] = r[j] => i = j

\* the query ran on a datastore where some author has an eligible teammate
\* next to an inactive teammate, and some user has nobody eligible although
\* other users exist
C8_Witness ==
    /\ last.op = "GetCandidateReviewers"
    /\ \E a \in DOMAIN db.users :
        /\ Eligible(db, a) # {}
        /\ \E u \in DOMAIN db.users :
               u # a /\ ~db.users[u].is_active /\ SharedTeams(db, u, a) # {}
    /\ \E a \in DOMAIN db.users :
        /\ Eligible(db, a) = {}
        /\ \E u \in DOMAIN db.users : u # a /\ SharedTeams(db, u, a) = {}

\* C9: GetCandidateReviewers returns the first N eligible users in the order
\* of (number of active assignments on OPEN pull requests, user id).
OpenLoad(d, u) ==
    Cardinality({k \in ActiveAssignments(d, u) : d.pull_requests[k[1]].status = "OPEN"})

ByOpenLoad(d, authorID, N) ==
    LET E == Eligible(d, authorID)
        before(v, u) == \/ OpenLoad(d, v) < OpenLoad(d, u)
                        \/ OpenLoad(d, v) = OpenLoad(d, u) /\ v < u
        pos(u) == Cardinality({v \in E : before(v, u)}) + 1
    IN [i \in 1..Min(N, Cardinality(E)) |-> CHOOSE u \in E : pos(u) = i]

C9_OrderedByOpenLoad ==
    \A a \in UserIds, N \in 0..MaxLimit :
        GetCandidateReviewers(db, a, N) = ByOpenLoad(db, a, N)

\* C10: the replacement of a successful ReassignReviewer(p, u) is an active
\* user in a team of the author, not the author, not u, not an active
\* reviewer of p before; afterwards the active reviewers of p are the
\* previous ones without u and with the replacement.
ReplacementIsEligible(d, e, p, u, new) ==
    /\ new \in DOMAIN d.users /\ d.users[new].is_active
    /\ \E t \in d.teams : {<<t, new>>, <<t, d.pull_requests[p].author>>} \subseteq d.team_members
    /\ new # d.pull_requests[p].author
    /\ new # u
    /\ new \notin ActiveReviewers(d, p)
    /\ ActiveReviewers(e, p) = (ActiveReviewers(d, p) \ {u}) \cup {new}

C10_ReplacementEligible ==
    \A p \in PRs, u \in UserIds :
        /\ \A o \in SvcReassignReviewer(db, p, u) :
               o.err = nil => /\ ReplacementIsEligible(db, o.db, p, u, o.ret.newUserID)
                              /\ o.ret.pr.reviewers = ActiveReviewers(o.db, p)
        /\ \A o \in RepoReassignReviewer(db, p, u) :
               o.err = nil => ReplacementIsEligible(db, o.db, p, u, o.ret)

\* the repository installed a replacement on a pull request of an author
\* who is in two teams
C10_Witness ==
    /\ last.op = "Repo.ReassignReviewer" /\ last.err = nil /\ last.changed
    /\ \E p \in PRs : Cardinality(AuthorTeams(db, p)) = 2

\* C11: the replacement of a successful ReassignReviewer(p, u) is, among the
\* users eligible as replacement, the one with the fewest active assignments
\* on OPEN pull requests, the smallest id among equals; the call has one
\* possible outcome in every datastore state.
ReplacementEligible(d, p, u) ==
    {v \in Eligible(d, d.pull_requests[p].author) \ {u} :
        v \notin ActiveReviewers(d, p)}

BestReplacement(d, p, u) ==
    LET E == ReplacementEligible(d, p, u) IN
    CHOOSE v \in E : \A w \in E \ {v} :
        \/ OpenLoad(d, v) < OpenLoad(d, w)
        \/ OpenLoad(d, v) = OpenLoad(d, w) /\ v < w

C11_ReplacementByRanking ==
    \A p \in PRs, u \in DOMAIN db.users :
        LET outs == RepoReassignReviewer(db, p, u) IN
        /\ Cardinality(outs) = 1
        /\ \A o \in outs : o.err = nil => o.ret = BestReplacement(db, p, u)

\* C12: the service's CreatePR, for an existing author and a new id, assigns
\* min(2, E) active reviewers, all eligible, E being the number of eligible
\* users; with E = 0 it fails with ErrNoCandidate and adds no pull request
\* row and no reviewers row.
C12_CreatePRAssignsUpToTwo ==
    \A a \in DOMAIN db.users, p \in PRIds \ PRs, title \in Titles :
        LET o == SvcCreatePR(db, p, title, a)
            E == Eligible(db, a)
        IN IF E = {}
           THEN /\ o.err = ErrNoCandidate
                /\ o.db.pull_requests = db.pull_requests
                /\ o.db.reviewers = db.reviewers
           ELSE /\ o.err = nil
                /\ p \in DOMAIN o.db.pull_requests
                /\ Cardinality(ActiveReviewers(o.db, p)) = Min(2, Cardinality(E))
                /\ ActiveReviewers(o.db, p) \subseteq E
                /\ {k \in DOMAIN o.db.reviewers : k[1] = p}
                       = {<<p, v>> : v \in ActiveReviewers(o.db, p)}
                /\ o.ret.reviewers = ActiveReviewers(o.db, p)

\* CreatePR has failed with ErrNoCandidate, and the pull requests there are
\* were created one with a single reviewer and one with two
C12_Witness ==
    /\ last.op = "CreatePR" /\ last.err = ErrNoCandidate
    /\ \E p \in PRs : Cardinality({k \in DOMAIN db.reviewers : k[1] = p}) = 1
    /\ \E p \in PRs : Cardinality({k \in DOMAIN db.reviewers : k[1] = p}) = 2

\* C13: a repository CreatePR that is given a reviewer id of no user, or
\* that fails for any other reason, returns an error and leaves the
\* datastore as it was: for a new id no pull request row and no reviewers
\* row of that id exists afterwards.
C13_CreatePRAllOrNothing ==
    \A p \in PRIds, title \in Titles, a \in UserIds, revs \in ReviewerLists :
        LET o == RepoCreatePR(db, p, title, a, revs) IN
        ((\E i \in DOMAIN revs : revs[i] \notin DOMAIN db.users) \/ o.err # nil)
        => /\ o.err # nil
           /\ o.db = db
           /\ p \notin PRs =>
                 /\ p \notin DOMAIN o.db.pull_requests
                 /\ ~\E k \in DOMAIN o.db.reviewers : k[1] = p

\* the repository was given a new id, a first reviewer who exists and a
\* second who does not, for an author who exists
C13_Witness ==
    /\ last.op = "Repo.CreatePR" /\ last.err = ErrOther
    /\ last.name \notin PRs
    /\ AuthorIds \subseteq DOMAIN db.users
    /\ Len(last.ids) = 2
    /\ last.ids[1] \in DOMAIN db.users
    /\ last.ids[2] \notin DOMAIN db.users

\* the stored pull requests and reviewers rows of d are those of e
SamePRs(d, e) ==
    /\ e.pull_requests = d.pull_requests
    /\ e.reviewers = d.reviewers

\* C14 as stated: CreatePR, of the repository and of the service, with the
\* id of a stored pull request fails with ErrPRExists and leaves the pull
\* requests and their reviewers rows unchanged.
C14_DuplicateIsPRExists ==
    \A p \in PRs, title \in Titles, a \in UserIds :
        /\ \A revs \in ReviewerLists :
               LET o == RepoCreatePR(db, p, title, a, revs) IN
               o.err = ErrPRExists /\ SamePRs(db, o.db)
        /\ LET o == SvcCreatePR(db, p, title, a) IN
           o.err = ErrPRExists /\ SamePRs(db, o.db)

\* C14 amended: the repository's CreatePR with the id of a stored pull
\* request fails with ErrPRExists; the service's CreatePR fails with
\* ErrNotFound when the author does not exist, with ErrNoCandidate when the
\* author has no eligible teammate, and with ErrPRExists otherwise; in every
\* case the pull requests and their reviewers rows are unchanged.
C14_DuplicateIsRefused ==
    \A p \in PRs, title \in Titles, a \in UserIds :
        /\ \A revs \in ReviewerLists :
               LET o == RepoCreatePR(db, p, title, a, revs) IN
               o.err = ErrPRExists /\ o.db = db
        /\ LET o == SvcCreatePR(db, p, title, a) IN
           /\ SamePRs(db, o.db)
           /\ IF a \notin DOMAIN db.users THEN Is(o.err, ErrNotFound)
              ELSE IF Eligible(db, a) = {} THEN o.err = ErrNoCandidate
              ELSE o.err = ErrPRExists

\* both ids are taken, by an OPEN and by a MERGED pull request, and the
\* service's CreatePR has been refused with ErrPRExists
C14_Witness ==
    /\ last.op = "CreatePR" /\ last.err = ErrPRExists
    /\ PRs = PRIds
    /\ \E p \in PRs : db.pull_requests[p].status = "OPEN"
    /\ \E p \in PRs : db.pull_requests[p].status = "MERGED"

\* C15: a service call that returns an error leaves the datastore as it was
\* before the call.
C15_ErrorsChangeNothing ==
    /\ \A name \in TeamNames, members \in MemberLists :
           LET o == SvcCreateTeam(db, name, members) IN o.err # nil => o.db = db
    /\ \A p \in PRIds, title \in Titles, a \in UserIds :
           LET o == SvcCreatePR(db, p, title, a) IN o.err # nil => o.db = db
    /\ \A p \in PRIds :
           LET o == SvcMergePR(db, p, clock) IN o.err # nil => o.db = db
    /\ \A p \in PRIds, u \in UserIds :
           \A o \in SvcReassignReviewer(db, p, u) : o.err # nil => o.db = db

\* C16: the service's CreatePR for an author whose is_active is false
\* returns an error and adds no pull request and no reviewers row.
C16_InactiveAuthorRefused ==
    \A a \in DOMAIN db.users, p \in PRIds, title \in Titles :
        ~db.users[a].is_active =>
            LET o == SvcCreatePR(db, p, title, a) IN
            o.err # nil /\ SamePRs(db, o.db)

\* C17: CreateTeam with a name that equals the name of a stored team when
\* letter case is ignored fails with ErrTeamExists and changes no row: no
\* team, no user, no membership.
SameIgnoringCase(a, b) == LOWER(a) = LOWER(b)

C17_TeamExistsChangesNothing ==
    \A name \in TeamNames, members \in MemberLists :
        (\E t \in db.teams : SameIgnoringCase(t, name)) =>
            LET o == RepoCreateTeam(db, name, members) IN
            /\ o.err = ErrTeamExists
            /\ o.db = db
            /\ SvcCreateTeam(db, name, members) = o

\* the call named a team stored under the other letter case and listed a
\* stored user next to a user not stored
C17_Witness ==
    /\ last.op = "Repo.CreateTeam" /\ last.err = ErrTeamExists
    /\ last.name \notin db.teams
    /\ \E i \in DOMAIN last.ids : last.ids[i] \in DOMAIN db.users
    /\ \E i \in DOMAIN last.ids : last.ids[i] \notin DOMAIN db.users

\* C19: every user is linked to at most one team.
TeamsOf(d, u) == {t \in d.teams : <<t, u>> \in d.team_members}

C19_OneTeamPerUser ==
    \A u \in DOMAIN db.users : Cardinality(TeamsOf(db, u)) <= 1

\* C20: CreateTeam with a new name and a member list that repeats a user id
\* succeeds; the team is linked once to every distinct id of the list, and
\* the memberships are those the call makes with the repetitions removed.
MembersOf(d, t) == {k[2] : k \in {m \in d.team_members : m[1] = t}}

RECURSIVE WithoutRepetitions(_, _)
\* members without the entries whose id is in seen or occurred earlier
WithoutRepetitions(members, seen) ==
    IF members = <<>> THEN <<>>
    ELSE IF Head(members).id \in seen
         THEN WithoutRepetitions(Tail(members), seen)
         ELSE <<Head(members)>>
                  \o WithoutRepetitions(Tail(members), seen \cup {Head(members).id})

C20_DuplicateMembersTolerated ==
    \A name \in TeamNames, members \in MemberLists :
        ~(\E t \in db.teams : SameIgnoringCase(t, name)) =>
            LET o == RepoCreateTeam(db, name, members)
                e == RepoCreateTeam(db, name, WithoutRepetitions(members, {}))
            IN /\ o.err = nil
               /\ MembersOf(o.db, name) = {members[i].id : i \in DOMAIN members}
               /\ o.db.team_members = e.db.team_members
               /\ Cardinality({m \in o.db.team_members : m[1] = name})
                      = Cardinality({members[i].id : i \in DOMAIN members})

\* a team was created from a list that names one user twice
C20_Witness ==
    /\ last.op = "Repo.CreateTeam" /\ last.err = nil
    /\ Len(last.ids) = 2 /\ last.ids[1] = last.ids[2]
    /\ MembersOf(db, last.name) = {last.ids[1]}

\* C18: no two stored teams have names that are equal when letter case is
\* ignored, also when CreateTeam calls run concurrently.
C18_TeamNamesUniqueIgnoringCase ==
    \A t1 \in db.teams, t2 \in db.teams : SameIgnoringCase(t1, t2) => t1 = t2

\* C21: GetStats, run alone, returns a total that is the number of active
\* reviewers rows, the sum of its per-user counts and the sum of its per-PR
\* counts, and lists every user and every pull request.
C21_StatsTotalsAgree ==
    LET s == GetStats(db) IN
    /\ s.total = TotalActive(db)
    /\ s.total = SumOver(s.user_counts, DOMAIN s.user_counts)
    /\ s.total = SumOver(s.pr_counts, DOMAIN s.pr_counts)
    /\ DOMAIN s.user_counts = DOMAIN db.users
    /\ DOMAIN s.pr_counts = PRs

\* GetStats ran on a datastore with an inactive row, a MERGED pull request
\* that has an active reviewer, and a user without assignment
C21_Witness ==
    /\ last.op = "GetStats"
    /\ \E k \in DOMAIN db.reviewers : ~db.reviewers[k]
    /\ \E p \in PRs : db.pull_requests[p].status = "MERGED" /\ ActiveReviewers(db, p) # {}
    /\ \E u \in DOMAIN db.users : ActiveAssignments(db, u) = {}

\* C23: ReassignReviewer on an OPEN pull request for a user who is not an
\* active reviewer of it fails with ErrNotAssigned and changes no row.
C23_NotAssignedRejected ==
    \A p \in PRs, u \in UserIds :
        (db.pull_requests[p].status = "OPEN" /\ u \notin ActiveReviewers(db, p)) =>
            /\ \A o \in SvcReassignReviewer(db, p, u) :
                   o.err = ErrNotAssigned /\ o.db = db
            /\ \A o \in RepoReassignReviewer(db, p, u) :
                   o.err = ErrNotAssigned /\ o.db = db

\* the repository refused a user whose row on an OPEN pull request is
\* inactive while the pull request has an active reviewer
C23_Witness ==
    /\ last.op = "Repo.ReassignReviewer" /\ last.err = ErrNotAssigned
    /\ \E p \in PRs :
        /\ db.pull_requests[p].status = "OPEN"
        /\ ActiveReviewers(db, p) # {}
        /\ \E k \in DOMAIN db.reviewers : k[1] = p /\ ~db.reviewers[k]

\* C24: ReassignReviewer on an OPEN pull request for an active reviewer,
\* when nobody is eligible as replacement, fails with ErrNoCandidate and
\* changes no row.
C24_NoCandidateRejected ==
    \A p \in PRs, u \in UserIds :
        (/\ db.pull_requests[p].status = "OPEN"
         /\ u \in ActiveReviewers(db, p)
         /\ ReplacementEligible(db, p, u) = {}) =>
            /\ \A o \in SvcReassignReviewer(db, p, u) :
                   o.err = ErrNoCandidate /\ o.db = db
            /\ \A o \in RepoReassignReviewer(db, p, u) :
                   o.err = ErrNoCandidate /\ o.db = db

\* the call failed on a pull request all of whose author's active teammates
\* review it already, and there are two of them
C24_Witness ==
    /\ last.op = "ReassignReviewer" /\ last.err = ErrNoCandidate
    /\ \E p \in PRs :
        /\ db.pull_requests[p].status = "OPEN"
        /\ Cardinality(ActiveReviewers(db, p)) = 2
        /\ Eligible(db, db.pull_requests[p].author) = ActiveReviewers(db, p)

\* C25: MergePR and ReassignReviewer with the id of no pull request fail
\* with ErrNotFound and change nothing.
C25_UnknownPRNotFound ==
    \A p \in PRIds \ PRs :
        /\ LET o == SvcMergePR(db, p, clock) IN o.err = ErrNotFound /\ o.db = db
        /\ \A u \in UserIds :
            /\ \A o \in SvcReassignReviewer(db, p, u) : o.err = ErrNotFound /\ o.db = db
            /\ \A o \in RepoReassignReviewer(db, p, u) : o.err = ErrNotFound /\ o.db = db

\* MergePR was refused while another pull request is stored
C25_Witness ==
    /\ last.op = "MergePR" /\ last.err = ErrNotFound
    /\ PRs # {} /\ PRs # PRIds

\* C30: no step removes a reviewers row or makes an inactive row active.
C30_ReviewersAppendOnly ==
    [][/\ DOMAIN db.reviewers \subseteq DOMAIN db'.reviewers
       /\ \A k \in DOMAIN db.reviewers : ~db.reviewers[k] => ~db'.reviewers[k]]_vars

\* a reassignment failed on the primary key of a row that is inactive
C30_Witness ==
    /\ last.op = "Repo.ReassignReviewer" /\ last.err = ErrOther
    /\ \E k \in DOMAIN db.reviewers : ~db.reviewers[k]

\* C26: a create-PR request for an author who does not exist is answered
\* with status 404 and code NOT_FOUND.
C26_MissingAuthorIsNotFound ==
    \A a \in UserIds \ DOMAIN db.users, p \in PRIds, title \in Titles :
        HandlerCreatePR(db, p, title, a) = [status |-> 404, code |-> "NOT_FOUND"]

\* C28: ReassignReviewer on an OPEN pull request for an active reviewer
\* installs a replacement whenever somebody is eligible, also somebody with
\* an inactive row on the pull request, and fails only when nobody is, then
\* with ErrNoCandidate.  Whichever team of the author the call looks at, it
\* then returns no error other than ErrNoCandidate, and ErrNoCandidate only
\* if that team holds no candidate.
C28_ReplacesWheneverEligible ==
    \A p \in PRs, u \in UserIds :
        (db.pull_requests[p].status = "OPEN" /\ u \in ActiveReviewers(db, p)) =>
            /\ \A o \in SvcReassignReviewer(db, p, u) : o.err \in {nil, ErrNoCandidate}
            /\ \A o \in RepoReassignReviewer(db, p, u) : o.err \in {nil, ErrNoCandidate}
            /\ (\A t \in AuthorTeams(db, p) :
                    ReplacementCandidates(db, p, t, db.pull_requests[p].author, u) # {})
                => \A o \in RepoReassignReviewer(db, p, u) : o.err = nil

\* C29: the record MergePR returns holds the active reviewers of the pull
\* request, and the first MergePR and a repeated one return the same id,
\* title, author, status and reviewers.
C29_MergeReturnsReviewers ==
    \A p \in PRs :
        LET o1 == SvcMergePR(db, p, clock)
            o2 == SvcMergePR(o1.db, p, clock + 1)
        IN /\ o1.ret.reviewers = ActiveReviewers(db, p)
           /\ o2.ret.reviewers = ActiveReviewers(db, p)
           /\ o1.ret.id = o2.ret.id
           /\ o1.ret.title = o2.ret.title
           /\ o1.ret.author = o2.ret.author
           /\ o1.ret.status = o2.ret.status

\* C22: every result GetStats returns, whatever commits while it runs, has
\* its total equal to the sum of its per-user counts and to the sum of its
\* per-PR counts.
C22_StatsSingleSnapshot ==
    \A w \in Workers :
        (procs[w].op = "GetStats" /\ procs[w].pc = "done") =>
            LET s == procs[w].stats IN
            /\ s.total = SumOver(s.user_counts, DOMAIN s.user_counts)
            /\ s.total = SumOver(s.pr_counts, DOMAIN s.pr_counts)

\* C27: when the transaction of CreatePR commits, every reviewer row it
\* inserts belongs to a user who at that instant is an active teammate of
\* the author, other than the author, and no such teammate left out has
\* fewer active assignments.
C27_RankingHoldsAtCommit ==
    [][\A p \in PRIds :
          (p \notin DOMAIN db.pull_requests /\ p \in DOMAIN db'.pull_requests) =>
              LET a == db'.pull_requests[p].author
                  R == ActiveReviewers(db', p)
              IN \A u \in R :
                    /\ u \in CandidateUsers(db, a)
                    /\ \A v \in CandidateUsers(db, a) \ R :
                           current_assignments(db, v, a) >= current_assignments(db, u, a)]_vars

\* C31: a pull request has a merge timestamp exactly when its status is
\* MERGED; a pull request appears without one, and a timestamp once stored
\* is never cleared or replaced.
C31_StampedIffMerged ==
    /\ [](\A p \in PRs :
            (db.pull_requests[p].merged_at # NULL) <=> (db.pull_requests[p].status = "MERGED"))
    /\ [][\A p \in PRIds :
            /\ (p \notin DOMAIN db.pull_requests /\ p \in DOMAIN db'.pull_requests)
                  => db'.pull_requests[p].merged_at = NULL
            /\ (p \in DOMAIN db.pull_requests /\ db.pull_requests[p].merged_at # NULL)
                  => /\ p \in DOMAIN db'.pull_requests
                     /\ db'.pull_requests[p].merged_at = db.pull_requests[p].merged_at]_vars

\* a repeated MergePR has run, later than the stored timestamp, while the
\* other pull request is OPEN
C31_Witness ==
    /\ last.op = "MergePR" /\ last.err = nil /\ ~last.changed
    /\ \E p \in PRs : /\ db.pull_requests[p].status = "MERGED"
                      /\ db.pull_requests[p].merged_at < clock
    /\ \E p \in PRs : db.pull_requests[p].status = "OPEN"

\* C32: MergePR changes nothing but the status and the merge timestamp of
\* the pull request it names: the reviewers rows, active and inactive, every
\* other pull request, the title and author of the named one, and all users,
\* teams and memberships stay as they were.
C32_MergeTouchesOnlyStatus ==
    \A p \in PRIds :
        LET o == SvcMergePR(db, p, clock) IN
        /\ o.db.reviewers = db.reviewers
        /\ o.db.users = db.users
        /\ o.db.teams = db.teams
        /\ o.db.team_members = db.team_members
        /\ DOMAIN o.db.pull_requests = PRs
        /\ \A q \in PRs \ {p} : o.db.pull_requests[q] = db.pull_requests[q]
        /\ p \in PRs =>
              /\ o.db.pull_requests[p].title = db.pull_requests[p].title
              /\ o.db.pull_requests[p].author = db.pull_requests[p].author

\* MergePR has just merged a pull request that has an active and an inactive
\* reviewers row, while another pull request is OPEN
C32_Witness ==
    /\ last.op = "MergePR" /\ last.err = nil /\ last.changed
    /\ \E p \in PRs :
        /\ db.pull_requests[p].merged_at = clock - 1
        /\ ActiveReviewers(db, p) # {}
        /\ \E k \in DOMAIN db.reviewers : k[1] = p /\ ~db.reviewers[k]
    /\ \E q \in PRs : db.pull_requests[q].status = "OPEN"

\* C33: with the calls run one after the other, every pull request has one
\* or two active reviewers, and once a pull request is stored no call
\* changes how many it has.
C33_OneOrTwoReviewers ==
    /\ [](\A p \in PRs : Cardinality(ActiveReviewers(db, p)) \in 1..ReviewerLimit)
    /\ [][\A p \in PRs :
            /\ p \in DOMAIN db'.pull_requests
            /\ Cardinality(ActiveReviewers(db', p)) = Cardinality(ActiveReviewers(db, p))]_vars

\* a reassignment has succeeded on a pull request with two active reviewers
\* while another pull request has one, and one of the reviewers is inactive
\* as a user
C33_Witness ==
    /\ last.op = "ReassignReviewer" /\ last.err = nil
    /\ \E p \in PRs : Cardinality(ActiveReviewers(db, p)) = 2
    /\ \E p \in PRs : Cardinality(ActiveReviewers(db, p)) = 1
    /\ \E p \in PRs : \E u \in ActiveReviewers(db, p) : ~db.users[u].is_active

\* C34: every active reviewer of every pull request is a member of a team
\* of which the author of the pull request is a member too.
C34_ReviewersShareATeam ==
    \A p \in PRs : \A u \in ActiveReviewers(db, p) :
        SharedTeams(db, u, db.pull_requests[p].author) # {}

\* a reassignment has found no candidate although an active user who
\* shares no team with the author of the OPEN pull request, and does not
\* review it, is stored
C34_Witness ==
    /\ last.op = "ReassignReviewer" /\ last.err = ErrNoCandidate
    /\ \E p \in PRs :
        /\ db.pull_requests[p].status = "OPEN"
        /\ \E u \in DOMAIN db.users \ ActiveReviewers(db, p) :
            /\ db.users[u].is_active
            /\ u # db.pull_requests[p].author
            /\ SharedTeams(db, u, db.pull_requests[p].author) = {}

\* C35: SetUserActive(userID, isActive), of the service and of the
\* repository, changes nothing but is_active of that user, which becomes
\* isActive: the username, every other user, teams, memberships, pull
\* requests and all reviewers rows stay; for a user id that is not stored it
\* returns ErrNotFound and changes nothing.
C35_SetUserActiveTouchesOnlyFlag ==
    \A u \in UserIds, isActive \in BOOLEAN :
        \A o \in {SvcSetUserActive(db, u, isActive), RepoSetUserActive(db, u, isActive)} :
            IF u \notin DOMAIN db.users
            THEN o.err = ErrNotFound /\ o.db = db
            ELSE /\ o.err = nil
                 /\ o.db = [db EXCEPT !.users[u].is_active = isActive]
                 /\ o.db.reviewers = db.reviewers
                 /\ o.db.pull_requests = db.pull_requests
                 /\ o.db.team_members = db.team_members
                 /\ o.db.teams = db.teams
                 /\ DOMAIN o.db.users = DOMAIN db.users
                 /\ \A v \in DOMAIN db.users \ {u} : o.db.users[v] = db.users[v]
                 /\ o.db.users[u].username = db.users[u].username

\* SetUserActive has just deactivated a user who is an active reviewer of an
\* OPEN pull request, and still is
C35_Witness ==
    /\ last.op = "SetUserActive" /\ last.err = nil /\ last.changed
    /\ \E p \in PRs : /\ db.pull_requests[p].status = "OPEN"
                      /\ \E u \in ActiveReviewers(db, p) : ~db.users[u].is_active

\* the members a request may list: any id, either username, either flag
RequestedUsernames == {"a", "b"}

RequestedMembers ==
    LET M == [id : UserIds, username : RequestedUsernames, is_active : BOOLEAN]
    IN UNION {[1..n -> M] : n \in 0..MaxMembers}

LastEntry(members, id) ==
    members[CHOOSE i \in DOMAIN members :
                /\ members[i].id = id
                /\ \A j \in DOMAIN members : members[j].id = id => j <= i]

\* C36: a CreateTeam(name, members) whose name is not taken succeeds and
\* stores the team; every listed user is stored and linked to it, with the
\* username and is_active of the last entry of the list that names the id,
\* whatever was stored for that user before; users not listed, pull
\* requests and reviewers rows stay as they were.
C36_CreateTeamStoresRequest ==
    \A name \in CalledTeamNames, members \in RequestedMembers :
        ~TeamNameTaken(db, name) =>
            LET o == SvcCreateTeam(db, name, members)
                ids == {members[i].id : i \in DOMAIN members}
            IN /\ o.err = nil
               /\ name \notin db.teams
               /\ o.db.teams = db.teams \cup {name}
               /\ DOMAIN o.db.users = DOMAIN db.users \cup ids
               /\ MembersOf(o.db, name) = ids
               /\ \A u \in ids :
                     /\ o.db.users[u].username = LastEntry(members, u).username
                     /\ o.db.users[u].is_active = LastEntry(members, u).is_active
               /\ \A u \in DOMAIN db.users \ ids : o.db.users[u] = db.users[u]
               /\ o.db.pull_requests = db.pull_requests
               /\ o.db.reviewers = db.reviewers

\* a second team has just been created with a user who was stored before,
\* is an active reviewer and is now inactive
C36_Witness ==
    /\ last.op = "CreateTeam" /\ last.err = nil /\ last.changed
    /\ \E u \in DOMAIN db.users :
        /\ Cardinality(TeamsOf(db, u)) = 2
        /\ ~db.users[u].is_active
        /\ \E p \in PRs : u \in ActiveReviewers(db, p)

\* C37: when two concurrent CreatePR calls with the same pull request id
\* have both returned, one has succeeded and the other has failed with
\* ErrPRExists, and the stored pull request has the author and the reviewers
\* of the call that succeeded and no row of the other.
C37_OneCommitsOtherPRExists ==
    \A w \in Workers : \A v \in Workers \ {w} :
        (/\ procs[w].op = "CreatePR" /\ procs[w].pc = "done"
         /\ procs[v].op = "CreatePR" /\ procs[v].pc = "done"
         /\ procs[w].prID = procs[v].prID
         /\ procs[w].err = nil) =>
            /\ procs[v].err = ErrPRExists
            /\ db.pull_requests[procs[w].prID].author = procs[w].authorID
            /\ ActiveReviewers(db, procs[w].prID)
                   = {procs[w].candidateIDs[i] : i \in DOMAIN procs[w].candidateIDs}
            /\ {k \in DOMAIN db.reviewers : k[1] = procs[w].prID}
                   = {<<procs[w].prID, procs[w].candidateIDs[i]>> : i \in DOMAIN procs[w].candidateIDs}

====
